---------------------------- MODULE Spec2Model ----------------------------
(***************************************************************************)
(* Session/validation core of the authentication layer.                    *)
(*                                                                         *)
(*   - Session Guard: updateSession (lib/auth/supabase middleware helper), *)
(*     one request at a time, split at its single await (the user lookup), *)
(*     during which the provider may call the cookies.setAll callback.     *)
(*   - Auth Service: the operations of auth-service, each one provider     *)
(*     call followed by the mapping of its outcome.                        *)
(*   - Error Mapper and Validators: mapAuthError, validateEmail,           *)
(*     validatePassword, sanitizeInput and the form validators, pure       *)
(*     functions applied to arguments drawn in the initial state.          *)
(*                                                                         *)
(* Strings are TLA+ strings; startsWith / includes are computed on their   *)
(* characters with Len and SubSeq.                                         *)
(***************************************************************************)
EXTENDS Integers, Sequences, FiniteSets, TLC

(***************************************************************************)
(* Bounds of the model.                                                    *)
(***************************************************************************)
\* number of cookies.setAll batches the provider may issue during one lookup
MaxBatches == 2
\* token values 1..MaxToken a cookie may carry
MaxToken == 2
\* number of fragments a raw provider error text is composed of
MaxFragments == 3
\* length of the email texts given to validateEmail
MaxEmailLen == 5
\* number of pieces a password text given to validatePassword is composed of
MaxPieces == 4
\* number of pieces a text given to sanitizeInput is composed of
MaxSanitizerPieces == 3

(***************************************************************************)
(* Value domains.                                                          *)
(***************************************************************************)
\* an unset (undefined or empty) environment variable: both are falsy
Unset == ""
PlaceholderUrl == "your_supabase_project_url"
SupabaseUrls == {Unset, PlaceholderUrl, "https://proj.supabase.co"}
SupabaseKeys == {Unset, "anon-key"}

Emails == {"a@b.com", "c@d.com"}
\* user: null
NoUser == "null"
SessionKinds == {"password", "recovery"}

\* request paths: the protected prefix, the four auth pages, sub-paths,
\* near-misses of the prefixes and public pages
Paths ==
    { "/", "/about", "/dash", "/dashboard", "/dashboard/settings",
      "/dashboards", "/login", "/login/help", "/signup", "/forgot-password",
      "/reset-password", "/api/chat" }

CookieNames == {"sb-access-token", "sb-refresh-token"}
Absent == 0
CookieValues == 1..MaxToken
\* a cookie jar: name -> value, Absent when the cookie is not set
CookieJars == [CookieNames -> CookieValues \cup {Absent}]
NoCookies == [n \in CookieNames |-> Absent]
\* cookiesToSet: the cookies of one setAll call (Absent: not in the batch)
CookieBatches == CookieJars \ {NoCookies}

Passwords == {"Abc123!@", "Xyz789#$"}
NoAccount == "none"

\* error texts the provider reports
ProviderMessages ==
    { "User already registered",
      "Invalid login credentials",
      "Password is too weak",
      "Unable to validate email address: invalid format",
      "Auth session missing!",
      "token is invalid",
      "Email rate limit exceeded",
      "User not found",
      "fetch failed" }

\* an error object of the provider (AuthError: always with a message)
ErrorResults == [hasMessage : {TRUE}, message : ProviderMessages]
\* no error object / a thrown value that has no message property
NoErrorObject == [hasMessage |-> FALSE, message |-> ""]
\* what a provider call (or createClient) can throw: an Error of the
\* transport, or a value without message
ThrownValues ==
    {[hasMessage |-> TRUE, message |-> "fetch failed"], NoErrorObject}

\* how one provider call ends: { data, error: null }, { data, error } or
\* an exception
OkOutcome == [kind |-> "ok", error |-> NoErrorObject]
ErrorOutcomes == [kind : {"error"}, error : ErrorResults]
ThrowOutcomes ==
    [kind : {"throws"}, error : ThrownValues, from : {"createClient", "auth"}]
ProviderOutcomes == {OkOutcome} \cup ErrorOutcomes \cup ThrowOutcomes

\* fragments of raw provider error texts: every substring mapAuthError looks
\* for, and text it does not look for
RawFragments ==
    << "already registered", "already exists", "Invalid login credentials",
       "invalid_credentials", "Password", "weak", "email", "expired",
       "session", "token", "invalid", "rate", "too many", "not found",
       "Database error" >>

\* the fragments with index in S, in order, separated by blanks
RECURSIVE JoinFragments(_, _)
JoinFragments(S, i) ==
    IF i > Len(RawFragments)
    THEN ""
    ELSE IF i \in S
         THEN IF \E j \in S : j > i
              THEN RawFragments[i] \o " " \o JoinFragments(S, i + 1)
              ELSE RawFragments[i]
         ELSE JoinFragments(S, i + 1)

RawTexts ==
    { JoinFragments(S, 1) :
        S \in { T \in SUBSET (1..Len(RawFragments)) :
                    Cardinality(T) <= MaxFragments } }

\* the values passed to mapAuthError: errors with a message, and a value
\* without message property (null, a string, a plain object)
RawErrors ==
    [hasMessage : {TRUE}, message : RawTexts] \cup {NoErrorObject}

\* outcomes of supabase.auth.getUser() as seen by the guard
LookupOutcomes == {"user", "nouser", "error", "throws"}

(***************************************************************************)
(* String helpers (String.prototype.startsWith / includes).                *)
(***************************************************************************)
StartsWith(s, p) ==
    /\ Len(s) >= Len(p)
    /\ SubSeq(s, 1, Len(p)) = p

Includes(s, sub) ==
    \E i \in 1..(Len(s) - Len(sub) + 1) : SubSeq(s, i, i + Len(sub) - 1) = sub

(***************************************************************************)
(* Session Guard: pure parts of updateSession.                             *)
(***************************************************************************)
\* faulty variant: the placeholder URL counts as a configuration
IsConfigured_PlaceholderAccepted(url, key) ==
    ~(url = Unset \/ key = Unset)

\* the negation of the condition of the unconfigured branch
IsConfigured(url, key) ==
    ~(url = Unset \/ key = Unset \/ url = PlaceholderUrl)

protectedRoutes == {"/dashboard"}
\* faulty variant: the landing page is listed with the auth pages
authRoutes_WithDashboard ==
    {"/login", "/signup", "/forgot-password", "/reset-password", "/dashboard"}

authRoutes == {"/login", "/signup", "/forgot-password", "/reset-password"}

IsProtectedRoute(path) ==
    \E route \in protectedRoutes : StartsWith(path, route)

IsAuthRoute(path) ==
    \E route \in authRoutes : StartsWith(path, route)

\* NextResponse.redirect(url) with url.pathname = location: a fresh response
RedirectResponse(location) ==
    [kind |-> "redirect", location |-> location, cookies |-> NoCookies]

\* NextResponse.next({ request }): a fresh pass-through response
PassThroughResponse ==
    [kind |-> "next", location |-> "", cookies |-> NoCookies]

\* an exception leaving updateSession
RaisedResponse ==
    [kind |-> "raised", location |-> "", cookies |-> NoCookies]

NoResponse ==
    [kind |-> "none", location |-> "", cookies |-> NoCookies]

\* cookies.set(name, value) for each cookie of a batch, on a jar
SetCookies(jar, cookiesToSet) ==
    [n \in CookieNames |->
        IF cookiesToSet[n] # Absent THEN cookiesToSet[n] ELSE jar[n]]

\* the body of cookies.setAll on the response: a new pass-through response
\* that receives the cookies of this batch
SetAllResponse(resp, cookiesToSet) ==
    [PassThroughResponse EXCEPT
        !.cookies = SetCookies(PassThroughResponse.cookies, cookiesToSet)]

\* the unconfigured branch
UnconfiguredResponse(path) ==
    IF IsProtectedRoute(path)
    THEN RedirectResponse("/login")
    ELSE PassThroughResponse

\* faulty variant: no try/catch around the lookup
LookupUser_NoCatch(outcome, sessionUser) ==
    [raised |-> outcome = "throws",
     user   |-> IF outcome = "user" THEN sessionUser ELSE NoUser]

\* let user = null; try { user = (await getUser()).data.user } catch {}
\* raised: whether an exception of the lookup leaves the try statement
LookupUser(outcome, sessionUser) ==
    [raised |-> FALSE,
     user   |-> IF outcome = "user" THEN sessionUser ELSE NoUser]

\* faulty variant: the protected-route check is missing
Decide_NoProtectedCheck(path, user, resp) ==
    IF IsAuthRoute(path) /\ user # NoUser
    THEN RedirectResponse("/dashboard")
    ELSE resp

\* faulty variant: the auth-route check is missing
Decide_NoAuthRouteCheck(path, user, resp) ==
    IF IsProtectedRoute(path) /\ user = NoUser
    THEN RedirectResponse("/login")
    ELSE resp

\* faulty variant: every request without a user is sent to the login page
Decide_FailClosed(path, user, resp) ==
    IF user = NoUser /\ ~IsAuthRoute(path)
    THEN RedirectResponse("/login")
    ELSE IF IsAuthRoute(path) /\ user # NoUser
         THEN RedirectResponse("/dashboard")
         ELSE resp

\* the decision table after the lookup
Decide(path, user, resp) ==
    IF IsProtectedRoute(path) /\ user = NoUser
    THEN RedirectResponse("/login")
    ELSE IF IsAuthRoute(path) /\ user # NoUser
         THEN RedirectResponse("/dashboard")
         ELSE resp

(***************************************************************************)
(* Auth Service: pure parts.                                               *)
(***************************************************************************)
\* error?.message || ''
ErrorMessage(error) ==
    IF error.hasMessage THEN error.message ELSE ""

\* faulty variant: an unrecognized error text is returned as it is
mapAuthError_FallsBackToRaw(error) ==
    LET errorMessage == ErrorMessage(error)
    IN  IF Includes(errorMessage, "already registered")
           \/ Includes(errorMessage, "already exists")
        THEN "An account with this email already exists"
        ELSE IF Includes(errorMessage, "Invalid login credentials")
                \/ Includes(errorMessage, "invalid_credentials")
        THEN "Invalid email or password"
        ELSE IF Includes(errorMessage, "Password")
                /\ Includes(errorMessage, "weak")
        THEN "Password does not meet requirements"
        ELSE IF Includes(errorMessage, "email")
        THEN "Please enter a valid email address"
        ELSE IF Includes(errorMessage, "expired")
                \/ Includes(errorMessage, "session")
        THEN "Your session has expired. Please log in again."
        ELSE IF Includes(errorMessage, "token")
                /\ (Includes(errorMessage, "invalid")
                    \/ Includes(errorMessage, "expired"))
        THEN "This password reset link is invalid or has expired"
        ELSE IF Includes(errorMessage, "rate")
                \/ Includes(errorMessage, "too many")
        THEN "Too many attempts. Please try again later."
        ELSE errorMessage

\* faulty variant: the email rule is tried before the credentials rule
mapAuthError_EmailRuleFirst(error) ==
    LET errorMessage == ErrorMessage(error)
    IN  IF Includes(errorMessage, "already registered")
           \/ Includes(errorMessage, "already exists")
        THEN "An account with this email already exists"
        ELSE IF Includes(errorMessage, "email")
        THEN "Please enter a valid email address"
        ELSE IF Includes(errorMessage, "Invalid login credentials")
                \/ Includes(errorMessage, "invalid_credentials")
        THEN "Invalid email or password"
        ELSE IF Includes(errorMessage, "Password")
                /\ Includes(errorMessage, "weak")
        THEN "Password does not meet requirements"
        ELSE IF Includes(errorMessage, "expired")
                \/ Includes(errorMessage, "session")
        THEN "Your session has expired. Please log in again."
        ELSE IF Includes(errorMessage, "token")
                /\ (Includes(errorMessage, "invalid")
                    \/ Includes(errorMessage, "expired"))
        THEN "This password reset link is invalid or has expired"
        ELSE IF Includes(errorMessage, "rate")
                \/ Includes(errorMessage, "too many")
        THEN "Too many attempts. Please try again later."
        ELSE "An error occurred. Please try again later."

mapAuthError(error) ==
    LET errorMessage == ErrorMessage(error)
    IN  IF Includes(errorMessage, "already registered")
           \/ Includes(errorMessage, "already exists")
        THEN "An account with this email already exists"
        ELSE IF Includes(errorMessage, "Invalid login credentials")
                \/ Includes(errorMessage, "invalid_credentials")
        THEN "Invalid email or password"
        ELSE IF Includes(errorMessage, "Password")
                /\ Includes(errorMessage, "weak")
        THEN "Password does not meet requirements"
        ELSE IF Includes(errorMessage, "email")
        THEN "Please enter a valid email address"
        ELSE IF Includes(errorMessage, "expired")
                \/ Includes(errorMessage, "session")
        THEN "Your session has expired. Please log in again."
        ELSE IF Includes(errorMessage, "token")
                /\ (Includes(errorMessage, "invalid")
                    \/ Includes(errorMessage, "expired"))
        THEN "This password reset link is invalid or has expired"
        ELSE IF Includes(errorMessage, "rate")
                \/ Includes(errorMessage, "too many")
        THEN "Too many attempts. Please try again later."
        ELSE "An error occurred. Please try again later."

\* the error property is absent (mapAuthError never returns the empty string)
NoError == ""

\* results of the service: AuthResponse; { error? } leaves user and session
\* null
ServiceResult(u, sess, err) ==
    [user |-> u, session |-> sess, error |-> err, raised |-> FALSE]

\* an exception leaving an operation of the service
RaisedResult ==
    [user |-> NoUser, session |-> NoUser, error |-> NoError, raised |-> TRUE]

EmptyResult == ServiceResult(NoUser, NoUser, NoError)
ErrorResult(error) == ServiceResult(NoUser, NoUser, mapAuthError(error))

\* faulty variant: every error result of the provider is reported
ResetPasswordRequestResult_ReportsNotFound(outcome) ==
    IF outcome.kind = "error"
    THEN ErrorResult(outcome.error)
    ELSE EmptyResult

\* resetPasswordRequest after the provider call: an exception (also the
\* TypeError of error.message.includes on a missing message) is caught and
\* answered with {}
ResetPasswordRequestResult(outcome) ==
    IF outcome.kind = "throws"
    THEN EmptyResult
    ELSE IF outcome.kind = "error" /\ ~outcome.error.hasMessage
    THEN EmptyResult
    ELSE IF outcome.kind = "error"
            /\ ~Includes(outcome.error.message, "not found")
    THEN ErrorResult(outcome.error)
    ELSE EmptyResult

\* signUp after the provider call; data: the user and session of the call
SignUpResult(outcome, data) ==
    IF outcome.kind = "throws" \/ outcome.kind = "error"
    THEN ErrorResult(outcome.error)
    ELSE ServiceResult(data.user, data.session, NoError)

\* faulty variant: signIn without try/catch
SignInResult_NoCatch(outcome, data) ==
    IF outcome.kind = "throws"
    THEN RaisedResult
    ELSE IF outcome.kind = "error"
    THEN ErrorResult(outcome.error)
    ELSE ServiceResult(data.user, data.session, NoError)

\* signIn after the provider call
SignInResult(outcome, data) ==
    IF outcome.kind = "throws" \/ outcome.kind = "error"
    THEN ErrorResult(outcome.error)
    ELSE ServiceResult(data.user, data.session, NoError)

\* faulty variant: signOut reports success whatever the provider answered
SignOutResult_IgnoresError(outcome) ==
    IF outcome.kind = "throws"
    THEN ErrorResult(outcome.error)
    ELSE EmptyResult

\* signOut after the provider call
SignOutResult(outcome) ==
    IF outcome.kind = "throws" \/ outcome.kind = "error"
    THEN ErrorResult(outcome.error)
    ELSE EmptyResult

\* getSession / refreshSession: data.session, null after an exception; the
\* returned Session | null is the session field
SessionReadResult(outcome, data) ==
    IF outcome.kind = "throws"
    THEN EmptyResult
    ELSE ServiceResult(NoUser, data.session, NoError)

\* getCurrentUser: data.user, null after an exception; the returned
\* User | null is the user field
UserReadResult(outcome, data) ==
    IF outcome.kind = "throws"
    THEN EmptyResult
    ELSE ServiceResult(data.user, NoUser, NoError)

\* resetPassword after the provider call
ResetPasswordResult(outcome) ==
    IF outcome.kind = "throws" \/ outcome.kind = "error"
    THEN ErrorResult(outcome.error)
    ELSE EmptyResult

\* faulty variant: the call is issued again after an error result
ProviderCalls_RetriesOnError(outcome) ==
    IF outcome.kind = "throws" /\ outcome.from = "createClient" THEN 0
    ELSE IF outcome.kind = "error" THEN 2
    ELSE 1

\* the supabase.auth calls an operation issues: the one after createClient()
\* in its try block, none when createClient() throws
ProviderCalls(outcome) ==
    IF outcome.kind = "throws" /\ outcome.from = "createClient" THEN 0 ELSE 1

NoCall ==
    [op |-> "none", email |-> "", registered |-> FALSE,
     outcome |-> OkOutcome, result |-> EmptyResult, calls |-> 0]

(***************************************************************************)
(* Validators (lib/auth/validators.ts): character classes of the regular   *)
(* expressions and the string operations they are used with.               *)
(***************************************************************************)
CharAt(s, i) == SubSeq(s, i, i)

\* \s, restricted to the white space of the ASCII range
Whitespace == {" ", "\t", "\n", "\r"}

UpperCaseLetters ==
    {"A", "B", "C", "D", "E", "F", "G", "H", "I", "J", "K", "L", "M",
     "N", "O", "P", "Q", "R", "S", "T", "U", "V", "W", "X", "Y", "Z"}

LowerCaseLetters ==
    {"a", "b", "c", "d", "e", "f", "g", "h", "i", "j", "k", "l", "m",
     "n", "o", "p", "q", "r", "s", "t", "u", "v", "w", "x", "y", "z"}

Digits == {"0", "1", "2", "3", "4", "5", "6", "7", "8", "9"}

\* faulty variant: the class without the colon
SpecialCharacters_WithoutColon ==
    {"!", "@", "#", "$", "%", "^", "&", "*", "(", ")", "_", "+", "-", "=",
     "[", "]", "{", "}", ";", "'", "\"", "\\", "|", ",", ".", "<", ">",
     "/", "?"}

\* the class [!@#$%^&*()_+\-=\[\]{};':"\\|,.<>\/?] of validatePassword
SpecialCharacters ==
    {"!", "@", "#", "$", "%", "^", "&", "*", "(", ")", "_", "+", "-", "=",
     "[", "]", "{", "}", ";", "'", ":", "\"", "\\", "|", ",", ".", "<", ">",
     "/", "?"}

\* the class of the 'One special character' test of the indicator
IndicatorSpecialCharacters ==
    {"!", "@", "#", "$", "%", "^", "&", "*", "(", ")", "_", "+", "-", "=",
     "[", "]", "{", "}", ";", "'", ":", "\"", "\\", "|", ",", ".", "<", ">",
     "/", "?"}

\* \w
WordCharacters == UpperCaseLetters \cup LowerCaseLetters \cup Digits \cup {"_"}

\* /[class]/.test(s)
Test(class, s) == \E i \in 1..Len(s) : CharAt(s, i) \in class

RECURSIVE TrimStart(_)
TrimStart(s) ==
    IF Len(s) > 0 /\ CharAt(s, 1) \in Whitespace
    THEN TrimStart(SubSeq(s, 2, Len(s)))
    ELSE s

RECURSIVE TrimEnd(_)
TrimEnd(s) ==
    IF Len(s) > 0 /\ CharAt(s, Len(s)) \in Whitespace
    THEN TrimEnd(SubSeq(s, 1, Len(s) - 1))
    ELSE s

Trim(s) == TrimEnd(TrimStart(s))

\* !s || s.trim() === ''
IsBlank(s) == s = "" \/ Trim(s) = ""

\* Array.prototype.join
RECURSIVE Join(_, _)
Join(parts, sep) ==
    IF Len(parts) = 0 THEN ""
    ELSE IF Len(parts) = 1 THEN parts[1]
    ELSE parts[1] \o sep \o Join(Tail(parts), sep)

\* one character in lower case
LowerCaseOf(c) ==
    IF c \in UpperCaseLetters
    THEN LET i == CHOOSE k \in 1..26 :
                      CharAt("ABCDEFGHIJKLMNOPQRSTUVWXYZ", k) = c
         IN  CharAt("abcdefghijklmnopqrstuvwxyz", i)
    ELSE c

RECURSIVE ToLowerCase(_)
ToLowerCase(s) ==
    IF Len(s) = 0 THEN ""
    ELSE LowerCaseOf(CharAt(s, 1)) \o ToLowerCase(SubSeq(s, 2, Len(s)))

\* an errors object is a function from its keys to messages
NoErrors == << >>

Valid == [isValid |-> TRUE, errors |-> NoErrors]
Invalid(field, message) == [isValid |-> FALSE, errors |-> (field :> message)]

\* Object.assign(errors, source)
ObjectAssign(errors, source) == source @@ errors

\* faulty variant: /^[^\s@]+@[^\s@]+$/, no dot asked for
emailRegex_NoDot(email) ==
    \E i \in 1..Len(email) :
        /\ 1 < i
        /\ i < Len(email)
        /\ CharAt(email, i) = "@"
        /\ \A k \in (1..Len(email)) \ {i} :
              CharAt(email, k) \notin Whitespace \cup {"@"}

\* /^[^\s@]+@[^\s@]+\.[^\s@]+$/.test(email)
emailRegex(email) ==
    \E i \in 1..Len(email) : \E j \in 1..Len(email) :
        /\ 1 < i
        /\ i + 1 < j
        /\ j < Len(email)
        /\ CharAt(email, i) = "@"
        /\ CharAt(email, j) = "."
        /\ \A k \in (1..Len(email)) \ {i, j} :
              CharAt(email, k) \notin Whitespace \cup {"@"}

validateEmail(email) ==
    IF IsBlank(email)
    THEN Invalid("email", "Email is required")
    ELSE IF ~emailRegex(email)
         THEN Invalid("email", "Please enter a valid email address")
         ELSE Valid

\* faulty variant: the tests stop at the first requirement that is not met
PasswordRequirements_ShortCircuit(password) ==
    IF Len(password) < 8 THEN << "at least 8 characters" >>
    ELSE IF ~Test(UpperCaseLetters, password) THEN << "one uppercase letter" >>
    ELSE IF ~Test(LowerCaseLetters, password) THEN << "one lowercase letter" >>
    ELSE IF ~Test(Digits, password) THEN << "one number" >>
    ELSE IF ~Test(SpecialCharacters, password)
         THEN << "one special character" >>
         ELSE << >>

\* the fragments pushed to requirements, in the order of the tests
PasswordRequirements(password) ==
       (IF Len(password) < 8 THEN << "at least 8 characters" >> ELSE << >>)
    \o (IF ~Test(UpperCaseLetters, password)
        THEN << "one uppercase letter" >> ELSE << >>)
    \o (IF ~Test(LowerCaseLetters, password)
        THEN << "one lowercase letter" >> ELSE << >>)
    \o (IF ~Test(Digits, password) THEN << "one number" >> ELSE << >>)
    \o (IF ~Test(SpecialCharacters, password)
        THEN << "one special character" >> ELSE << >>)

\* faulty variant: a blank password is not told apart from a short one
validatePassword_NoRequiredCheck(password) ==
    LET requirements == PasswordRequirements(password)
    IN  IF Len(requirements) > 0
        THEN Invalid("password",
                     "Password must contain " \o Join(requirements, ", "))
        ELSE Valid

validatePassword(password) ==
    IF IsBlank(password)
    THEN Invalid("password", "Password is required")
    ELSE LET requirements == PasswordRequirements(password)
         IN  IF Len(requirements) > 0
             THEN Invalid("password",
                          "Password must contain "
                              \o Join(requirements, ", "))
             ELSE Valid

\* requirements.filter((req) => req.test(password)) of the indicator, as the
\* labels of the requirements that are met
metRequirements(password) ==
       (IF Len(password) >= 8 THEN << "At least 8 characters" >> ELSE << >>)
    \o (IF Test(UpperCaseLetters, password)
        THEN << "One uppercase letter" >> ELSE << >>)
    \o (IF Test(LowerCaseLetters, password)
        THEN << "One lowercase letter" >> ELSE << >>)
    \o (IF Test(Digits, password) THEN << "One number" >> ELSE << >>)
    \o (IF Test(IndicatorSpecialCharacters, password)
        THEN << "One special character" >> ELSE << >>)

\* s.replace(/[<>]/g, '')
RECURSIVE RemoveAngleBrackets(_)
RemoveAngleBrackets(s) ==
    IF Len(s) = 0 THEN ""
    ELSE (IF CharAt(s, 1) \in {"<", ">"} THEN "" ELSE CharAt(s, 1))
            \o RemoveAngleBrackets(SubSeq(s, 2, Len(s)))

\* s.replace(/javascript:/gi, ''): one pass from left to right
RECURSIVE RemoveJavascript(_)
RemoveJavascript(s) ==
    IF Len(s) = 0 THEN ""
    ELSE IF /\ Len(s) >= Len("javascript:")
            /\ ToLowerCase(SubSeq(s, 1, Len("javascript:"))) = "javascript:"
         THEN RemoveJavascript(SubSeq(s, Len("javascript:") + 1, Len(s)))
         ELSE CharAt(s, 1) \o RemoveJavascript(SubSeq(s, 2, Len(s)))

\* the first index from i on whose character is not in class
RECURSIVE RunEnd(_, _, _)
RunEnd(s, i, class) ==
    IF i <= Len(s) /\ CharAt(s, i) \in class
    THEN RunEnd(s, i + 1, class)
    ELSE i

\* index of the '=' that ends a match of /on\w+\s*=/i at the start of s,
\* 0 without a match; \w+ and \s* are runs that end at a character of
\* neither class, so the longest runs are the only candidates
HandlerEnd(s) ==
    IF Len(s) >= 2 /\ ToLowerCase(SubSeq(s, 1, 2)) = "on"
    THEN LET w == RunEnd(s, 3, WordCharacters)
             e == RunEnd(s, w, Whitespace)
         IN  IF w > 3 /\ e <= Len(s) /\ CharAt(s, e) = "=" THEN e ELSE 0
    ELSE 0

\* s.replace(/on\w+\s*=/gi, ''): one pass from left to right
RECURSIVE RemoveEventHandlers(_)
RemoveEventHandlers(s) ==
    IF Len(s) = 0 THEN ""
    ELSE IF HandlerEnd(s) > 0
         THEN RemoveEventHandlers(SubSeq(s, HandlerEnd(s) + 1, Len(s)))
         ELSE CharAt(s, 1) \o RemoveEventHandlers(SubSeq(s, 2, Len(s)))

sanitizeInput(input) ==
    IF input = "" THEN ""
    ELSE RemoveEventHandlers(RemoveJavascript(RemoveAngleBrackets(Trim(input))))

\* faulty variant: the confirmation is left out of isValid
validateSignUpForm_ValidIgnoresConfirm(data) ==
    LET emailValidation == validateEmail(sanitizeInput(data.email))
        passwordValidation == validatePassword(data.password)
        errors1 == IF ~emailValidation.isValid
                   THEN ObjectAssign(NoErrors, emailValidation.errors)
                   ELSE NoErrors
        errors2 == IF ~passwordValidation.isValid
                   THEN ObjectAssign(errors1, passwordValidation.errors)
                   ELSE errors1
        errors3 == IF /\ "confirmPassword" \in DOMAIN data
                      /\ data.password # data.confirmPassword
                   THEN ObjectAssign(errors2,
                            "confirmPassword" :> "Passwords do not match")
                   ELSE errors2
    IN  [isValid |-> emailValidation.isValid /\ passwordValidation.isValid,
         errors |-> errors3]

\* faulty variant: the confirmation is compared only for a valid password
validateSignUpForm_ConfirmAfterPassword(data) ==
    LET emailValidation == validateEmail(sanitizeInput(data.email))
        passwordValidation == validatePassword(data.password)
        errors1 == IF ~emailValidation.isValid
                   THEN ObjectAssign(NoErrors, emailValidation.errors)
                   ELSE NoErrors
        errors2 == IF ~passwordValidation.isValid
                   THEN ObjectAssign(errors1, passwordValidation.errors)
                   ELSE errors1
        errors3 == IF /\ passwordValidation.isValid
                      /\ "confirmPassword" \in DOMAIN data
                      /\ data.password # data.confirmPassword
                   THEN ObjectAssign(errors2,
                            "confirmPassword" :> "Passwords do not match")
                   ELSE errors2
    IN  [isValid |-> DOMAIN errors3 = {}, errors |-> errors3]

\* faulty variant: the password is sanitized like the email
validateSignUpForm_SanitizesPassword(data) ==
    LET email == sanitizeInput(data.email)
        password == sanitizeInput(data.password)
        emailValidation == validateEmail(email)
        passwordValidation == validatePassword(password)
        errors1 == IF ~emailValidation.isValid
                   THEN ObjectAssign(NoErrors, emailValidation.errors)
                   ELSE NoErrors
        errors2 == IF ~passwordValidation.isValid
                   THEN ObjectAssign(errors1, passwordValidation.errors)
                   ELSE errors1
        errors3 == IF /\ "confirmPassword" \in DOMAIN data
                      /\ password # sanitizeInput(data.confirmPassword)
                   THEN ObjectAssign(errors2,
                            "confirmPassword" :> "Passwords do not match")
                   ELSE errors2
    IN  [isValid |-> DOMAIN errors3 = {}, errors |-> errors3]

\* a form is a function from the properties that are not undefined
validateSignUpForm(data) ==
    LET email == sanitizeInput(data.email)
        password == data.password
        emailValidation == validateEmail(email)
        passwordValidation == validatePassword(password)
        errors1 == IF ~emailValidation.isValid
                   THEN ObjectAssign(NoErrors, emailValidation.errors)
                   ELSE NoErrors
        errors2 == IF ~passwordValidation.isValid
                   THEN ObjectAssign(errors1, passwordValidation.errors)
                   ELSE errors1
        errors3 == IF /\ "confirmPassword" \in DOMAIN data
                      /\ data.password # data.confirmPassword
                   THEN ObjectAssign(errors2,
                            "confirmPassword" :> "Passwords do not match")
                   ELSE errors2
    IN  [isValid |-> DOMAIN errors3 = {}, errors |-> errors3]

\* faulty variant: the login form applies the strength policy
validateLoginForm_AppliesPolicy(data) ==
    LET emailValidation == validateEmail(sanitizeInput(data.email))
        passwordValidation == validatePassword(data.password)
        errors1 == IF ~emailValidation.isValid
                   THEN ObjectAssign(NoErrors, emailValidation.errors)
                   ELSE NoErrors
        errors2 == IF ~passwordValidation.isValid
                   THEN ObjectAssign(errors1, passwordValidation.errors)
                   ELSE errors1
    IN  [isValid |-> DOMAIN errors2 = {}, errors |-> errors2]

validateLoginForm(data) ==
    LET email == sanitizeInput(data.email)
        emailValidation == validateEmail(email)
        errors1 == IF ~emailValidation.isValid
                   THEN ObjectAssign(NoErrors, emailValidation.errors)
                   ELSE NoErrors
        errors2 == IF IsBlank(data.password)
                   THEN ObjectAssign(errors1,
                            "password" :> "Password is required")
                   ELSE errors1
    IN  [isValid |-> DOMAIN errors2 = {}, errors |-> errors2]

\* faulty variant: the confirmation is compared outside the password branch
validateResetPasswordForm_ConfirmAlways(data) ==
    LET errors1 ==
            IF "email" \in DOMAIN data
            THEN LET emailValidation ==
                         validateEmail(sanitizeInput(data.email))
                 IN  IF ~emailValidation.isValid
                     THEN ObjectAssign(NoErrors, emailValidation.errors)
                     ELSE NoErrors
            ELSE NoErrors
        errors2 ==
            IF "password" \in DOMAIN data
            THEN LET passwordValidation == validatePassword(data.password)
                 IN  IF ~passwordValidation.isValid
                     THEN ObjectAssign(errors1, passwordValidation.errors)
                     ELSE errors1
            ELSE errors1
        errors3 ==
            IF /\ "confirmPassword" \in DOMAIN data
               /\ \/ "password" \notin DOMAIN data
                  \/ data.password # data.confirmPassword
            THEN ObjectAssign(errors2,
                     "confirmPassword" :> "Passwords do not match")
            ELSE errors2
    IN  [isValid |-> DOMAIN errors3 = {}, errors |-> errors3]

validateResetPasswordForm(data) ==
    LET errors1 ==
            IF "email" \in DOMAIN data
            THEN LET emailValidation ==
                         validateEmail(sanitizeInput(data.email))
                 IN  IF ~emailValidation.isValid
                     THEN ObjectAssign(NoErrors, emailValidation.errors)
                     ELSE NoErrors
            ELSE NoErrors
        errors2 ==
            IF "password" \in DOMAIN data
            THEN LET passwordValidation == validatePassword(data.password)
                     errorsP == IF ~passwordValidation.isValid
                                THEN ObjectAssign(errors1,
                                         passwordValidation.errors)
                                ELSE errors1
                 IN  IF /\ "confirmPassword" \in DOMAIN data
                        /\ data.password # data.confirmPassword
                     THEN ObjectAssign(errorsP,
                              "confirmPassword" :> "Passwords do not match")
                     ELSE errorsP
            ELSE errors1
    IN  [isValid |-> DOMAIN errors2 = {}, errors |-> errors2]

(***************************************************************************)
(* Inputs of the validators.                                               *)
(***************************************************************************)
\* the texts of at most n pieces of A
RECURSIVE Strings(_, _)
Strings(A, n) ==
    IF n = 0 THEN {""}
    ELSE LET shorter == Strings(A, n - 1)
         IN  shorter \cup { s \o c : s \in shorter, c \in A }

\* a character that emailRegex accepts everywhere, and the three it looks at
EmailAlphabet == {"a", "@", ".", " "}
EmailTexts == Strings(EmailAlphabet, MaxEmailLen)

\* one character of each class, two characters outside all classes of
\* validators.ts l.54-66, and runs of one class
PasswordPieces ==
    {"A", "a", "1", "!", ":", " ", "ABCDE", "abcde", "12345", "#$%^&"}
PasswordTexts == Strings(PasswordPieces, MaxPieces)

\* email fields of forms: blank, well-formed, malformed, and texts that
\* sanitizeInput changes
FormEmails ==
    {"", "  ", "a@b.com", " a@b.com ", "not-an-email", "<@b.co",
     "onx=@b.co", "a@b.c<o>", "javascript:a@b.co", "ONCLICK =a@b.co"}

FormPasswords ==
    {"", "   ", "Abc123!@", " Abc123!@", "Xyz789#$", "abc12345",
     "<Abc12:>"}

\* a form holds the properties that are not undefined
FormInputs ==
         { [email |-> e, password |-> q] :
              e \in FormEmails, q \in FormPasswords }
    \cup { [email |-> e, password |-> q, confirmPassword |-> c] :
              e \in FormEmails, q \in FormPasswords, c \in FormPasswords }
    \cup { [password |-> q, confirmPassword |-> c] :
              q \in FormPasswords, c \in FormPasswords }
    \cup { [confirmPassword |-> c] : c \in FormPasswords }
    \cup { [email |-> e, confirmPassword |-> c] :
              e \in FormEmails, c \in FormPasswords }

\* what sanitizeInput removes, whole and in parts, and text it keeps
SanitizerPieces ==
    {"a", " ", "<", ">", "javascript:", "java", "script:", "JavaScript:",
     "on", "x=", "onx ="}
SanitizerTexts == Strings(SanitizerPieces, MaxSanitizerPieces)

ValidatorInputs ==
         { [email |-> e] : e \in EmailTexts \cup FormEmails }
    \cup { [password |-> q] : q \in PasswordTexts \cup FormPasswords }
    \cup FormInputs

(***************************************************************************)
(* Form components (LoginForm, ForgotPasswordForm, ResetPasswordForm):     *)
(* the parts of handleChange and handleSubmit that compute values.         *)
(***************************************************************************)
FormKinds == {"login", "forgot", "reset"}

\* what a user types into the fields
TypedEmails == {"", "a@b.com", "not-an-email"}
TypedPasswords == {"", "Abc123!@", "abc12345"}

\* useState of the fields
InitialData(kind) ==
    CASE kind = "login" -> [email |-> "", password |-> ""]
      [] kind = "forgot" -> [email |-> ""]
      [] kind = "reset" -> [password |-> "", confirmPassword |-> ""]

TypedValues(name) ==
    IF name = "email" THEN TypedEmails ELSE TypedPasswords

\* the validator handleSubmit calls
ValidateForm(kind, data) ==
    CASE kind = "login" -> validateLoginForm(data)
      [] kind = "forgot" -> validateResetPasswordForm([email |-> data.email])
      [] kind = "reset" -> validateResetPasswordForm(data)

\* the Auth Service operation handleSubmit awaits
FormOperation(kind) ==
    CASE kind = "login" -> "signIn"
      [] kind = "forgot" -> "resetPasswordRequest"
      [] kind = "reset" -> "resetPassword"

\* how the awaited operation ends for the handler
OperationOutcomes == {"ok", "error", "throws"}

\* delete newErrors[name]
WithoutError(errors, name) ==
    [k \in DOMAIN errors \ {name} |-> errors[k]]

GeneralError(outcome) ==
    IF outcome = "error"
    THEN "general" :> "Invalid email or password"
    ELSE "general" :> "An unexpected error occurred. Please try again."

NoData == << >>

InitialForm(kind) ==
    [kind |-> kind, data |-> InitialData(kind), errors |-> NoErrors,
     isLoading |-> FALSE, submit |-> "none", calls |-> 0, op |-> "none",
     validated |-> NoData, calledWith |-> NoData]

NoForm == InitialForm("login")

(***************************************************************************)
(* POST /api/chat: the parts of the route that compute values.             *)
(***************************************************************************)
modelsToTry ==
    << "gemini-2.5-flash", "gemini-2.0-flash-lite", "gemini-flash-latest" >>

\* process.env.GEMINI_API_KEY
ApiKeys == {Unset, "AIza-key"}

\* req.json(): a body with message and history, or one that does not parse
RequestBodies == {"ok", "malformed"}

\* a JavaScript value that is null, or a string / an Error with a message
JsNull == [isNull |-> TRUE, value |-> ""]

JsValue(v) == [isNull |-> FALSE, value |-> v]

\* a string in a condition: null and "" are falsy
TruthyText(t) == ~t.isNull /\ t.value # ""

\* what one model attempt ends with: response.text(), or an exception
ModelTexts == {"Hello", ""}

ModelErrorMessages ==
    {"503 Service Unavailable", "API_KEY_INVALID", "PERMISSION_DENIED",
     "404 Not Found", "429 Too Many Requests", ""}

ModelOutcomes ==
    [kind : {"text"}, value : ModelTexts]
        \cup [kind : {"throws"}, value : ModelErrorMessages]

ProducedText(outcome) == outcome.kind = "text" /\ outcome.value # ""

IsCritical(outcome) ==
    /\ outcome.kind = "throws"
    /\ \/ Includes(outcome.value, "API_KEY_INVALID")
       \/ Includes(outcome.value, "PERMISSION_DENIED")

\* the outer catch
ErrorResponse(message) ==
    LET raw == IF message = "" THEN "Unknown error occurred" ELSE message
        errorMessage ==
            IF Includes(raw, "404")
            THEN "Model not found or API version mismatch. Please check your project configuration."
            ELSE IF Includes(raw, "429")
                 THEN "Quota exceeded. Please try again in a moment."
                 ELSE raw
    IN  [status |-> 500, error |-> "Gemini API Error: " \o errorMessage]

MissingKeyResponse ==
    [status |-> 500,
     error |-> "Gemini API Key is missing. Please add it to your .env.local file."]

\* after the loop: throw lastError, or answer with responseText
AfterLoop(responseText, lastError) ==
    IF ~TruthyText(responseText) /\ ~lastError.isNull
    THEN ErrorResponse(lastError.value)
    ELSE [status |-> 200, text |-> responseText]

\* no answer yet
NoAnswer == [status |-> 0]

InitialChat(key) ==
    [pc |-> "idle", apiKey |-> key, tried |-> << >>, responseText |-> JsNull,
     lastError |-> JsNull, response |-> NoAnswer]

NoChat == InitialChat(Unset)

(***************************************************************************)
(* State.                                                                  *)
(***************************************************************************)
VARIABLES
    supabaseUrl,       \* process.env.NEXT_PUBLIC_SUPABASE_URL
    supabaseKey,       \* process.env.NEXT_PUBLIC_SUPABASE_ANON_KEY
    session,           \* provider: the user of the caller's session, or NoUser
    sessionKind,       \* provider: how that session was obtained
    browserCookies,    \* the browser's cookie jar
    pc,                \* position of updateSession: idle, lookup, done
    pathname,          \* request.nextUrl.pathname
    requestCookies,    \* request.cookies
    supabaseResponse,  \* the variable supabaseResponse
    requested,         \* the cookie writes requested by setAll so far
    setAllCalls,       \* calls of cookies.setAll during this lookup
    lookup,            \* how the lookup of this request ended
    user,              \* the variable user
    userKind,          \* the kind of session the lookup resolved user from
    response,          \* what updateSession returned
    getUserCalls,      \* calls of supabase.auth.getUser() in this request
    steps,             \* the statements of updateSession this request has
                       \* executed, in their order
    accounts,          \* provider: email -> password of the account
    svc,               \* the last Auth Service call and what it returned
    resetSeen,         \* what callers of resetPasswordRequest observed
    signedOut,         \* the caller's last session-changing call was a
                       \* signOut that returned no error
    fnName,            \* the pure function applied, "none" before the call
    fnArg,             \* its argument
    fnResult,          \* what it returned
    form,              \* a form component: its state and its last submit
    chat               \* a POST /api/chat request: its position and answer

vars ==
    << supabaseUrl, supabaseKey, session, sessionKind, browserCookies, pc,
       pathname, requestCookies, supabaseResponse, requested, setAllCalls,
       lookup, user, userKind, response, getUserCalls, steps, accounts, svc,
       resetSeen,
       signedOut, fnName, fnArg, fnResult, form, chat >>

envVars == << supabaseUrl, supabaseKey >>
providerVars == << session, sessionKind >>
serviceVars == << accounts, svc, resetSeen, signedOut >>
pureVars == << fnName, fnArg, fnResult >>
uiVars == << form, chat >>
requestVars ==
    << pc, pathname, requestCookies, supabaseResponse, requested,
       setAllCalls, lookup, user, userKind, response, getUserCalls, steps >>

NoResult == "none"

InitState ==
    /\ supabaseUrl \in SupabaseUrls
    /\ supabaseKey \in SupabaseKeys
    /\ session = NoUser
    /\ sessionKind = "none"
    /\ browserCookies = NoCookies
    /\ pc = "idle"
    /\ pathname = "/"
    /\ requestCookies = NoCookies
    /\ supabaseResponse = NoResponse
    /\ requested = NoCookies
    /\ setAllCalls = 0
    /\ lookup = "none"
    /\ user = NoUser
    /\ userKind = "none"
    /\ response = NoResponse
    /\ getUserCalls = 0
    /\ steps = << >>
    /\ accounts = [e \in Emails |-> NoAccount]
    /\ svc = NoCall
    /\ resetSeen = {}
    /\ signedOut = FALSE

\* no pure function is applied
InitIdle ==
    /\ InitState
    /\ fnName = "none"
    /\ fnArg = NoResult
    /\ fnResult = NoResult

Init ==
    /\ InitIdle
    /\ form = NoForm
    /\ chat = NoChat

(***************************************************************************)
(* Provider and browser events the guard observes.                         *)
(***************************************************************************)
\* a password sign-in completed at the provider
ProviderSignedIn(u) ==
    /\ session' = u
    /\ sessionKind' = "password"
    /\ UNCHANGED << envVars, browserCookies, requestVars, serviceVars,
                    pureVars, uiVars >>

\* the user followed a valid reset link: the provider exchanged the token
\* and holds the reset context as the session
ProviderResetLinkFollowed(u) ==
    /\ session' = u
    /\ sessionKind' = "recovery"
    /\ UNCHANGED << envVars, browserCookies, requestVars, serviceVars,
                    pureVars, uiVars >>

\* signed out, or the session expired
ProviderSessionEnded ==
    /\ session # NoUser
    /\ session' = NoUser
    /\ sessionKind' = "none"
    /\ UNCHANGED << envVars, browserCookies, requestVars, serviceVars,
                    pureVars, uiVars >>

(***************************************************************************)
(* updateSession.                                                          *)
(***************************************************************************)
\* the browser applies the Set-Cookie headers of a response
ApplySetCookie(jar, resp) == SetCookies(jar, resp.cookies)

\* the statements of updateSession in the order of the source: l.29
\* NextResponse.next, l.33 createServerClient, l.60 getUser; after the
\* await l.61-65, the decision of l.67-89 and the return
EntrySteps == << "NextResponse.next", "createServerClient", "getUser" >>
ExitSteps == << "getUser settled", "decide", "return" >>
\* l.10-27
UnconfiguredSteps == << "decide", "return" >>

\* faulty variant: a path that is neither protected nor an auth route is
\* answered between createServerClient and getUser
UpdateSessionBegin_EarlyReturn(p) ==
    /\ pc \in {"idle", "done"}
    /\ pathname' = p
    /\ requestCookies' = browserCookies
    /\ requested' = NoCookies
    /\ setAllCalls' = 0
    /\ lookup' = "none"
    /\ user' = NoUser
    /\ userKind' = "none"
    /\ IF ~IsConfigured(supabaseUrl, supabaseKey)
       THEN /\ response' = UnconfiguredResponse(p)
            /\ supabaseResponse' = NoResponse
            /\ getUserCalls' = 0
            /\ steps' = UnconfiguredSteps
            /\ pc' = "done"
            /\ browserCookies' = ApplySetCookie(browserCookies, response')
       ELSE IF ~IsProtectedRoute(p) /\ ~IsAuthRoute(p)
       THEN /\ response' = PassThroughResponse
            /\ supabaseResponse' = PassThroughResponse
            /\ getUserCalls' = 0
            /\ steps' = << "NextResponse.next", "createServerClient",
                           "return" >>
            /\ pc' = "done"
            /\ browserCookies' = ApplySetCookie(browserCookies, response')
       ELSE /\ response' = NoResponse
            /\ supabaseResponse' = PassThroughResponse
            /\ getUserCalls' = 1
            /\ steps' = EntrySteps
            /\ pc' = "lookup"
            /\ UNCHANGED browserCookies
    /\ UNCHANGED << uiVars, pureVars, envVars, providerVars, serviceVars >>

\* entry up to the await of getUser(): the unconfigured branch returns at
\* once; otherwise supabaseResponse is constructed, the client is created
\* and the lookup is started
UpdateSessionBegin(p) ==
    /\ pc \in {"idle", "done"}
    /\ pathname' = p
    /\ requestCookies' = browserCookies
    /\ requested' = NoCookies
    /\ setAllCalls' = 0
    /\ lookup' = "none"
    /\ user' = NoUser
    /\ userKind' = "none"
    /\ IF ~IsConfigured(supabaseUrl, supabaseKey)
       THEN /\ response' = UnconfiguredResponse(p)
            /\ supabaseResponse' = NoResponse
            /\ getUserCalls' = 0
            /\ steps' = UnconfiguredSteps
            /\ pc' = "done"
            /\ browserCookies' = ApplySetCookie(browserCookies, response')
       ELSE /\ response' = NoResponse
            /\ supabaseResponse' = PassThroughResponse
            /\ getUserCalls' = 1
            /\ steps' = EntrySteps
            /\ pc' = "lookup"
            /\ UNCHANGED browserCookies
    /\ UNCHANGED << uiVars, pureVars, envVars, providerVars, serviceVars >>

\* the provider calls cookies.setAll(cookiesToSet) during the lookup
SetAll(cookiesToSet) ==
    /\ pc = "lookup"
    /\ setAllCalls < MaxBatches
    /\ requestCookies' = SetCookies(requestCookies, cookiesToSet)
    /\ supabaseResponse' = SetAllResponse(supabaseResponse, cookiesToSet)
    /\ requested' = SetCookies(requested, cookiesToSet)
    /\ setAllCalls' = setAllCalls + 1
    /\ UNCHANGED << uiVars, pureVars, envVars, providerVars, serviceVars, browserCookies, pc,
                    pathname, lookup, user, userKind, response,
                    getUserCalls, steps >>

\* getUser() settles; the rest of updateSession runs to its return
GetUserSettles(outcome) ==
    /\ pc = "lookup"
    /\ outcome = "user" => session # NoUser
    /\ outcome = "nouser" => session = NoUser
    /\ lookup' = outcome
    /\ LET lk == LookupUser(outcome, session)
       IN  /\ user' = lk.user
           /\ userKind' = IF lk.user # NoUser THEN sessionKind ELSE "none"
           /\ response' = IF lk.raised
                           THEN RaisedResponse
                           ELSE Decide(pathname, lk.user, supabaseResponse)
    /\ browserCookies' = ApplySetCookie(browserCookies, response')
    /\ pc' = "done"
    /\ steps' = steps \o ExitSteps
    /\ UNCHANGED << uiVars, pureVars, envVars, providerVars, serviceVars, pathname,
                    requestCookies, supabaseResponse, requested, setAllCalls,
                    getUserCalls >>

Next ==
    \/ \E u \in Emails : ProviderSignedIn(u)
    \/ \E u \in Emails : ProviderResetLinkFollowed(u)
    \/ ProviderSessionEnded
    \/ \E p \in Paths : UpdateSessionBegin(p)
    \/ \E b \in CookieBatches : SetAll(b)
    \/ \E o \in LookupOutcomes : GetUserSettles(o)

Spec == Init /\ [][Next]_vars

(***************************************************************************)
(* Auth Service operations: one provider call each, then the result.       *)
(***************************************************************************)
guardVars == << envVars, browserCookies, requestVars >>

Registered(email) == accounts[email] # NoAccount

\* the provider reports "not found" only for an email without account
IsNotFound(outcome) ==
    /\ outcome.kind # "ok"
    /\ outcome.error.hasMessage
    /\ Includes(outcome.error.message, "not found")

\* signUp(email, password): auth.signUp creates the account and, when it
\* succeeds, signs the user in
SignUp(email, password, outcome) ==
    /\ outcome.kind = "ok" => ~Registered(email)
    /\ IF outcome.kind = "ok"
       THEN /\ accounts' = [accounts EXCEPT ![email] = password]
            /\ session' = email
            /\ sessionKind' = "password"
       ELSE UNCHANGED << accounts, providerVars >>
    /\ svc' = [op |-> "signUp", email |-> email,
               registered |-> Registered(email), outcome |-> outcome, calls |-> ProviderCalls(outcome),
               result |-> SignUpResult(outcome,
                                       [user |-> email, session |-> email])]
    /\ signedOut' = IF svc'.result.session # NoUser THEN FALSE ELSE signedOut
    /\ UNCHANGED << uiVars, pureVars, guardVars, resetSeen >>

\* signIn(email, password): auth.signInWithPassword succeeds only with the
\* password of the account and then holds a session for the user
SignIn(email, password, outcome) ==
    /\ outcome.kind = "ok" => accounts[email] = password
    /\ IF outcome.kind = "ok"
       THEN /\ session' = email
            /\ sessionKind' = "password"
       ELSE UNCHANGED providerVars
    /\ svc' = [op |-> "signIn", email |-> email,
               registered |-> Registered(email), outcome |-> outcome, calls |-> ProviderCalls(outcome),
               result |-> SignInResult(outcome,
                                       [user |-> email, session |-> email])]
    /\ signedOut' = IF svc'.result.session # NoUser THEN FALSE ELSE signedOut
    /\ UNCHANGED << uiVars, pureVars, guardVars, accounts, resetSeen >>

\* signOut(): auth.signOut destroys the session when it succeeds
SignOut(outcome) ==
    /\ IF outcome.kind = "ok"
       THEN /\ session' = NoUser
            /\ sessionKind' = "none"
       ELSE UNCHANGED providerVars
    /\ svc' = [op |-> "signOut", email |-> session,
               registered |-> session # NoUser, outcome |-> outcome, calls |-> ProviderCalls(outcome),
               result |-> SignOutResult(outcome)]
    /\ signedOut' = IF svc'.result.error = NoError THEN TRUE ELSE signedOut
    /\ UNCHANGED << uiVars, pureVars, guardVars, accounts, resetSeen >>

\* data of a read: the provider's current session when the call succeeds,
\* null fields with an error result
ReadData(outcome) ==
    IF outcome.kind = "ok"
    THEN [user |-> session, session |-> session]
    ELSE [user |-> NoUser, session |-> NoUser]

\* getSession(): auth.getSession
GetSession(outcome) ==
    /\ svc' = [op |-> "getSession", email |-> session,
               registered |-> session # NoUser, outcome |-> outcome, calls |-> ProviderCalls(outcome),
               result |-> SessionReadResult(outcome, ReadData(outcome))]
    /\ UNCHANGED << uiVars, pureVars, guardVars, providerVars, accounts, resetSeen, signedOut >>

\* getCurrentUser(): auth.getUser
GetCurrentUser(outcome) ==
    /\ svc' = [op |-> "getCurrentUser", email |-> session,
               registered |-> session # NoUser, outcome |-> outcome, calls |-> ProviderCalls(outcome),
               result |-> UserReadResult(outcome, ReadData(outcome))]
    /\ UNCHANGED << uiVars, pureVars, guardVars, providerVars, accounts, resetSeen, signedOut >>

\* refreshSession(): auth.refreshSession
RefreshSession(outcome) ==
    /\ svc' = [op |-> "refreshSession", email |-> session,
               registered |-> session # NoUser, outcome |-> outcome, calls |-> ProviderCalls(outcome),
               result |-> SessionReadResult(outcome, ReadData(outcome))]
    /\ UNCHANGED << uiVars, pureVars, guardVars, providerVars, accounts, resetSeen, signedOut >>

\* resetPasswordRequest(email): auth.resetPasswordForEmail
ResetPasswordRequest(email, outcome) ==
    /\ IsNotFound(outcome) => ~Registered(email)
    /\ LET result == ResetPasswordRequestResult(outcome)
       IN  /\ svc' = [op |-> "resetPasswordRequest", email |-> email,
                      registered |-> Registered(email),
                      outcome |-> outcome, calls |-> ProviderCalls(outcome), result |-> result]
           /\ resetSeen' =
                 IF outcome.kind = "ok"
                    \/ (outcome.kind = "error" /\ IsNotFound(outcome))
                 THEN resetSeen \cup
                        {[registered |-> Registered(email),
                          result |-> result]}
                 ELSE resetSeen
    /\ UNCHANGED << uiVars, pureVars, guardVars, providerVars, accounts, signedOut >>

\* resetPassword(newPassword): auth.updateUser on the current session
ResetPassword(newPassword, outcome) ==
    /\ outcome.kind = "ok" => session # NoUser
    /\ IF outcome.kind = "ok"
       THEN accounts' = [accounts EXCEPT ![session] = newPassword]
       ELSE UNCHANGED accounts
    /\ svc' = [op |-> "resetPassword", email |-> session,
               registered |-> session # NoUser, outcome |-> outcome, calls |-> ProviderCalls(outcome),
               result |-> ResetPasswordResult(outcome)]
    /\ UNCHANGED << uiVars, pureVars, guardVars, providerVars, resetSeen, signedOut >>

NextService ==
    \/ \E e \in Emails, p \in Passwords, o \in ProviderOutcomes :
          SignUp(e, p, o)
    \/ \E e \in Emails, o \in ProviderOutcomes : ResetPasswordRequest(e, o)
    \/ \E p \in Passwords, o \in ProviderOutcomes : ResetPassword(p, o)
    \/ \E e \in Emails, p \in Passwords, o \in ProviderOutcomes :
          SignIn(e, p, o)
    \/ \E o \in ProviderOutcomes : SignOut(o)
    \/ \E o \in ProviderOutcomes : GetSession(o)
    \/ \E o \in ProviderOutcomes : GetCurrentUser(o)
    \/ \E o \in ProviderOutcomes : RefreshSession(o)

\* the service runs in a browser whose client is configured; a client that
\* cannot be constructed is the outcome "throws" of every call
InitService ==
    /\ Init
    /\ IsConfigured(supabaseUrl, supabaseKey)

SpecService == InitService /\ [][NextService]_vars

\* Guard and service together, with a configured or an unconfigured
\* provider: requests for a protected and for a public path, and the
\* operations for one account with one outcome of each kind
CallPaths == {"/dashboard", "/about"}
CallEmail == "a@b.com"
CallPassword == "Abc123!@"
CallOutcomes ==
    { o \in ProviderOutcomes :
        \/ o.kind = "ok"
        \/ o.kind = "error" /\ o.error.message = "Invalid login credentials"
        \/ o.kind = "throws" /\ ~o.error.hasMessage }

NextCalls ==
    \/ \E p \in CallPaths : UpdateSessionBegin(p)
    \/ \E o \in LookupOutcomes : GetUserSettles(o)
    \/ \E o \in CallOutcomes : SignUp(CallEmail, CallPassword, o)
    \/ \E o \in CallOutcomes : SignIn(CallEmail, CallPassword, o)
    \/ \E o \in CallOutcomes : SignOut(o)
    \/ \E o \in CallOutcomes : ResetPasswordRequest(CallEmail, o)
    \/ \E o \in CallOutcomes : ResetPassword(CallPassword, o)
    \/ \E o \in CallOutcomes : GetSession(o)
    \/ \E o \in CallOutcomes : GetCurrentUser(o)
    \/ \E o \in CallOutcomes : RefreshSession(o)

SpecCalls == Init /\ [][NextCalls]_vars

(***************************************************************************)
(* Pure functions: the argument is drawn in the initial state, one action  *)
(* per function applies it.                                                *)
(***************************************************************************)
\* nothing but the call record changes; the environment plays no role
InitPure ==
    /\ InitState
    /\ supabaseUrl = Unset
    /\ supabaseKey = Unset
    /\ fnName = "none"
    /\ fnResult = NoResult
    /\ form = NoForm
    /\ chat = NoChat

Apply(name, result) ==
    /\ fnName = "none"
    /\ fnName' = name
    /\ fnResult' = result
    /\ UNCHANGED << fnArg, envVars, providerVars, browserCookies,
                    requestVars, serviceVars, uiVars >>

MapAuthError == Apply("mapAuthError", mapAuthError(fnArg))

InitMapper == InitPure /\ fnArg \in RawErrors
NextMapper == MapAuthError
SpecMapper == InitMapper /\ [][NextMapper]_vars

\* validators.ts and the indicator: the argument is a form, or one field
ValidateEmail ==
    /\ DOMAIN fnArg = {"email"}
    /\ Apply("validateEmail", validateEmail(fnArg.email))

ValidatePassword ==
    /\ DOMAIN fnArg = {"password"}
    /\ Apply("validatePassword", validatePassword(fnArg.password))

PasswordStrengthIndicator ==
    /\ DOMAIN fnArg = {"password"}
    /\ Apply("PasswordStrengthIndicator", metRequirements(fnArg.password))

ValidateSignUpForm ==
    /\ {"email", "password"} \subseteq DOMAIN fnArg
    /\ Apply("validateSignUpForm", validateSignUpForm(fnArg))

ValidateLoginForm ==
    /\ DOMAIN fnArg = {"email", "password"}
    /\ Apply("validateLoginForm", validateLoginForm(fnArg))

ValidateResetPasswordForm ==
    Apply("validateResetPasswordForm", validateResetPasswordForm(fnArg))

InitValidators == InitPure /\ fnArg \in ValidatorInputs
NextValidators ==
    \/ ValidateEmail
    \/ ValidatePassword
    \/ PasswordStrengthIndicator
    \/ ValidateSignUpForm
    \/ ValidateLoginForm
    \/ ValidateResetPasswordForm
SpecValidators == InitValidators /\ [][NextValidators]_vars

\* sanitizeInput applied to a text
SanitizeInput == Apply("sanitizeInput", sanitizeInput(fnArg))

InitSanitizer == InitPure /\ fnArg \in SanitizerTexts
NextSanitizer == SanitizeInput
SpecSanitizer == InitSanitizer /\ [][NextSanitizer]_vars

(***************************************************************************)
(* Form components: the inputs and the submit button are disabled while    *)
(* isLoading; handleSubmit runs up to its await, and on from it when the   *)
(* operation settles.                                                      *)
(***************************************************************************)
formFrame ==
    << chat, pureVars, envVars, providerVars, browserCookies, requestVars,
       serviceVars >>

HandleChange(name, value) ==
    /\ ~form.isLoading
    /\ name \in DOMAIN form.data
    /\ form' = [form EXCEPT !.data = [form.data EXCEPT ![name] = value],
                            !.errors = WithoutError(form.errors, name)]
    /\ UNCHANGED formFrame

\* faulty variant: the operation is called whatever the validator said
HandleSubmit_NoValidationGate ==
    /\ ~form.isLoading
    /\ form' = [form EXCEPT !.errors = NoErrors,
                            !.isLoading = TRUE,
                            !.submit = "pending",
                            !.calls = 1,
                            !.op = FormOperation(form.kind),
                            !.validated = form.data,
                            !.calledWith = form.data]
    /\ UNCHANGED formFrame

HandleSubmit ==
    /\ ~form.isLoading
    /\ LET validation == ValidateForm(form.kind, form.data)
       IN  IF ~validation.isValid
           THEN form' = [form EXCEPT !.errors = validation.errors,
                                     !.submit = "rejected",
                                     !.calls = 0,
                                     !.op = "none",
                                     !.validated = form.data,
                                     !.calledWith = NoData]
           ELSE form' = [form EXCEPT !.errors = NoErrors,
                                     !.isLoading = TRUE,
                                     !.submit = "pending",
                                     !.calls = 1,
                                     !.op = FormOperation(form.kind),
                                     !.validated = form.data,
                                     !.calledWith = form.data]
    /\ UNCHANGED formFrame

\* the awaited operation returns or throws: the rest of the try block, the
\* catch and the finally
OperationSettles(outcome) ==
    /\ form.submit = "pending"
    /\ form' = [form EXCEPT
                  !.errors = IF outcome = "ok" THEN form.errors
                             ELSE GeneralError(outcome),
                  !.data = IF outcome = "ok" /\ form.kind = "forgot"
                           THEN [email |-> ""] ELSE form.data,
                  !.isLoading = FALSE,
                  !.submit = outcome]
    /\ UNCHANGED formFrame

InitForms ==
    /\ InitIdle
    /\ supabaseUrl = Unset
    /\ supabaseKey = Unset
    /\ form \in { InitialForm(kind) : kind \in FormKinds }
    /\ chat = NoChat

NextForms ==
    \/ \E name \in {"email", "password", "confirmPassword"} :
          \E value \in TypedValues(name) : HandleChange(name, value)
    \/ HandleSubmit
    \/ \E outcome \in OperationOutcomes : OperationSettles(outcome)

SpecForms == InitForms /\ [][NextForms]_vars

(***************************************************************************)
(* POST /api/chat: the route up to its loop, then one step for each model  *)
(* attempt; the attempt that ends the loop also builds the answer.         *)
(***************************************************************************)
chatFrame ==
    << form, pureVars, envVars, providerVars, browserCookies, requestVars,
       serviceVars >>

Post(body) ==
    /\ chat.pc = "idle"
    /\ chat' =
         IF body = "malformed"
         THEN [chat EXCEPT !.pc = "done",
                           !.response =
                               ErrorResponse("Unexpected end of JSON input")]
         ELSE IF chat.apiKey = Unset
              THEN [chat EXCEPT !.pc = "done",
                                !.response = MissingKeyResponse]
              ELSE [chat EXCEPT !.pc = "loop"]
    /\ UNCHANGED chatFrame

SendMessageSettles(outcome) ==
    /\ chat.pc = "loop"
    /\ LET modelName == modelsToTry[Len(chat.tried) + 1]
           tried == Append(chat.tried,
                           [model |-> modelName, outcome |-> outcome])
           responseText == IF outcome.kind = "text"
                           THEN JsValue(outcome.value)
                           ELSE chat.responseText
           lastError == IF outcome.kind = "throws"
                        THEN JsValue(outcome.value)
                        ELSE chat.lastError
           break == ProducedText(outcome) \/ IsCritical(outcome)
       IN  chat' =
             IF break \/ Len(tried) = Len(modelsToTry)
             THEN [chat EXCEPT !.pc = "done",
                               !.tried = tried,
                               !.responseText = responseText,
                               !.lastError = lastError,
                               !.response =
                                   AfterLoop(responseText, lastError)]
             ELSE [chat EXCEPT !.tried = tried,
                               !.responseText = responseText,
                               !.lastError = lastError]
    /\ UNCHANGED chatFrame

InitChat ==
    /\ InitIdle
    /\ supabaseUrl = Unset
    /\ supabaseKey = Unset
    /\ form = NoForm
    /\ chat \in { InitialChat(key) : key \in ApiKeys }

NextChat ==
    \/ \E body \in RequestBodies : Post(body)
    \/ \E outcome \in ModelOutcomes : SendMessageSettles(outcome)

SpecChat == InitChat /\ [][NextChat]_vars

(***************************************************************************)
(* Properties of the Session Guard.                                        *)
(***************************************************************************)
\* the provider is configured: URL and key are set, the URL is not the
\* placeholder
ProviderConfigured ==
    /\ supabaseUrl \notin {Unset, PlaceholderUrl}
    /\ supabaseKey # Unset

Returned == pc = "done"

IsRedirectTo(resp, location) ==
    resp.kind = "redirect" /\ resp.location = location

\* the response carries every requested cookie write: for each name the
\* value of the last batch that set it
CarriesRequested(resp) ==
    \A n \in CookieNames :
        requested[n] # Absent => resp.cookies[n] = requested[n]

\* C1: with a configured provider, a returned request whose path starts
\* with '/dashboard' and whose lookup resolved no user is answered by a
\* redirect to '/login'.
C1_ProtectedWithoutUserRedirectsToLogin ==
    (Returned /\ ProviderConfigured /\ StartsWith(pathname, "/dashboard")
        /\ lookup # "user")
    => IsRedirectTo(response, "/login")

C1_Witness ==
    /\ Returned /\ ProviderConfigured
    /\ pathname = "/dashboard/settings"
    /\ lookup = "nouser"
    /\ IsRedirectTo(response, "/login")

C3_OtherRequestsPassThrough ==
    (Returned /\ ProviderConfigured
        /\ ~(StartsWith(pathname, "/dashboard") /\ lookup # "user")
        /\ ~(lookup = "user"
              /\ \E prefix \in {"/login", "/signup", "/forgot-password",
                                "/reset-password"} :
                    StartsWith(pathname, prefix)))
    => (response.kind = "next" /\ response = supabaseResponse)

C3_Witness ==
    /\ Returned /\ ProviderConfigured
    /\ pathname = "/about"
    /\ lookup = "nouser"
    /\ response.kind = "next"

\* C4 (as claimed): whenever the guard allows a request, the response
\* carries every cookie mutation requested by the setAll batches of the
\* lookup, for any number of batches.
C4_AllowCarriesEveryCookieMutation ==
    (Returned /\ response.kind = "next") => CarriesRequested(response)

\* C5 (as claimed): whenever the guard redirects, the redirect response
\* carries every cookie mutation requested during the lookup, and the
\* browser's jar after the response equals the server's view of it.
C5_RedirectCarriesEveryCookieMutation ==
    (Returned /\ response.kind = "redirect")
    => (CarriesRequested(response) /\ browserCookies = requestCookies)

\* C6: updateSession always ends in an allow or a redirect; a lookup that
\* returned an error result or threw is decided as a request without user:
\* '/login' for a protected path, pass-through otherwise.
C6_GuardNeverRaises ==
    Returned =>
        /\ response.kind \in {"next", "redirect"}
        /\ (ProviderConfigured /\ lookup \in {"error", "throws"}) =>
              IF StartsWith(pathname, "/dashboard")
              THEN IsRedirectTo(response, "/login")
              ELSE response.kind = "next"

C6_Witness ==
    /\ Returned
    /\ lookup = "throws"
    /\ pathname = "/dashboard"
    /\ IsRedirectTo(response, "/login")

\* C7: with an unconfigured provider (URL or key missing, or the
\* placeholder URL) a protected path is redirected to '/login', every other
\* path is allowed, and getUser is never called.
C7_UnconfiguredProtectsOnlyProtected ==
    (Returned /\ ~ProviderConfigured)
    => /\ getUserCalls = 0
       /\ lookup = "none"
       /\ IF StartsWith(pathname, "/dashboard")
          THEN IsRedirectTo(response, "/login")
          ELSE response.kind = "next"

C7_Witness ==
    /\ Returned
    /\ supabaseUrl = PlaceholderUrl
    /\ supabaseKey # Unset
    /\ pathname = "/login"
    /\ response.kind = "next"
    /\ getUserCalls = 0

\* C8 (as claimed): a request to '/reset-password' for which the provider
\* resolves the user of a reset-link (recovery) session is allowed through
\* to the reset form.
C8_ResetFormReachableWithRecoverySession ==
    (Returned /\ pathname = "/reset-password" /\ user # NoUser
        /\ userKind = "recovery")
    => response.kind = "next"

\* the positions of a statement in steps
StepsOf(label) == { i \in 1..Len(steps) : steps[i] = label }

\* C25: with a configured provider, within one request the pass-through
\* response is constructed before the user lookup starts, the lookup is the
\* step after the construction of the client, and no decision and no
\* return happens before the lookup has completed.
C25_GuardOrdering ==
    IsConfigured(supabaseUrl, supabaseKey) =>
        /\ pc = "lookup" =>
              /\ supabaseResponse # NoResponse
              /\ response = NoResponse
              /\ lookup = "none"
        /\ pc = "done" => lookup # "none" /\ getUserCalls = 1
        /\ \A g \in StepsOf("getUser") :
              /\ \E r \in StepsOf("NextResponse.next") : r < g
              /\ g - 1 \in StepsOf("createServerClient")
        /\ \A d \in StepsOf("decide") \cup StepsOf("return") :
              \E e \in StepsOf("getUser settled") : e < d

C25_Witness ==
    /\ IsConfigured(supabaseUrl, supabaseKey)
    /\ pc = "done"
    /\ pathname = "/dashboard"
    /\ setAllCalls > 0
    /\ steps = EntrySteps \o ExitSteps

\* what the guard answers to a request for path by the user that the last
\* request resolved, in the mode of this deployment
FollowUp(path) ==
    IF IsConfigured(supabaseUrl, supabaseKey)
    THEN Decide(path, user, PassThroughResponse)
    ELSE UnconfiguredResponse(path)

\* C28: the target of every redirect of the guard is a path that the guard
\* allows for the same authentication status, configured or not: '/login'
\* is not protected, '/dashboard' is not an auth route and no path is both.
C28_NoRedirectLoop ==
    /\ (Returned /\ response.kind = "redirect") =>
          /\ response.location \in {"/login", "/dashboard"}
          /\ FollowUp(response.location).kind = "next"
    /\ ~IsProtectedRoute("/login")
    /\ ~IsAuthRoute("/dashboard")
    /\ \A path \in Paths : ~(IsProtectedRoute(path) /\ IsAuthRoute(path))

C28_Witness ==
    /\ Returned
    /\ IsConfigured(supabaseUrl, supabaseKey)
    /\ user # NoUser
    /\ pathname = "/login/help"
    /\ IsRedirectTo(response, "/dashboard")
    /\ FollowUp("/dashboard").kind = "next"

(***************************************************************************)
(* Properties of the Auth Service.                                         *)
(***************************************************************************)
\* C9: whenever the provider answered a reset request with success or with
\* a 'not found' error, the caller got an object without error; what was
\* observed for a registered email equals what was observed for an
\* unregistered one.
C9_ResetRequestDoesNotRevealRegistration ==
    /\ \A a \in resetSeen, b \in resetSeen :
          (a.registered /\ ~b.registered) => a.result = b.result
    /\ \A a \in resetSeen : a.result.error = NoError

C9_Witness ==
    /\ svc.op = "resetPasswordRequest"
    /\ ~svc.registered
    /\ svc.outcome.kind = "error"
    /\ svc.outcome.error.message = "User not found"
    /\ svc.result.error = NoError
    /\ \E a \in resetSeen : a.registered
    /\ \E b \in resetSeen : ~b.registered

\* C10 (as claimed): whenever the send-reset-email call fails for a reason
\* other than 'not found', as an error result or as a thrown exception,
\* resetPasswordRequest returns the mapped message as error.
C10_ResetRequestReportsOutage ==
    (svc.op = "resetPasswordRequest" /\ svc.outcome.kind \in {"error", "throws"}
        /\ ~IsNotFound(svc.outcome))
    => (svc.result.error # NoError
        /\ svc.result.error = mapAuthError(svc.outcome.error))

\* C11: no operation of the service lets an exception escape; after a
\* provider call that failed (error result or exception) signUp and signIn
\* return { user: null, session: null, error: mapped message }, signOut and
\* resetPassword return { error: mapped message }, and getSession,
\* getCurrentUser and refreshSession return null; an error never comes with
\* a user or a session.
C11_ServiceNeverRaises ==
    /\ ~svc.result.raised
    /\ svc.result.error # NoError
          => (svc.result.user = NoUser /\ svc.result.session = NoUser)
    /\ (svc.op \in {"signUp", "signIn", "signOut", "resetPassword"}
          /\ svc.outcome.kind # "ok")
          => /\ svc.result.error = mapAuthError(svc.outcome.error)
             /\ svc.result.error # NoError
             /\ svc.result.user = NoUser
             /\ svc.result.session = NoUser
    /\ (svc.op \in {"getSession", "getCurrentUser", "refreshSession"}
          /\ svc.outcome.kind # "ok")
          => (svc.result.user = NoUser /\ svc.result.session = NoUser)

C11_Witness ==
    /\ svc.op = "signIn"
    /\ svc.outcome.kind = "throws"
    /\ ~svc.outcome.error.hasMessage
    /\ svc.result.error = "An error occurred. Please try again later."
    /\ session # NoUser

\* C12: a signIn that the provider accepts (it accepts only the password of
\* an account created by signUp) returns a session and no error; a signOut
\* that returned no error has destroyed the session; from then on, until a
\* signIn or signUp returns a session, getCurrentUser returns null.
C12_SessionRoundTrip ==
    /\ (svc.op = "signIn" /\ svc.outcome.kind = "ok")
          => (svc.result.session # NoUser /\ svc.result.error = NoError
              /\ svc.registered)
    /\ (svc.op = "signOut" /\ svc.result.error = NoError)
          => session = NoUser
    /\ (signedOut /\ svc.op = "getCurrentUser") => svc.result.user = NoUser

C12_Witness ==
    /\ signedOut
    /\ svc.op = "getCurrentUser"
    /\ svc.outcome.kind = "ok"
    /\ svc.result.user = NoUser
    /\ \E e \in Emails : Registered(e)

\* C26 as stated: every invocation of an Auth Service operation and every
\* Session Guard request issues exactly one call to the provider.
C26_ExactlyOneProviderCall ==
    /\ pc = "done" => getUserCalls = 1
    /\ svc.op # "none" => svc.calls = 1

\* C26, amended: no operation and no request issues more than one call to
\* the provider, none is repeated after a failure; a guard request issues
\* exactly one with a configured provider and none with an unconfigured
\* one, and a service operation issues exactly one unless the construction
\* of its client throws.
C26_AtMostOneProviderCall ==
    /\ getUserCalls <= 1
    /\ svc.calls <= 1
    /\ pc = "done" =>
          getUserCalls = IF IsConfigured(supabaseUrl, supabaseKey) THEN 1 ELSE 0
    /\ pc = "lookup" => getUserCalls = 1
    /\ svc.op # "none" =>
          svc.calls = IF /\ svc.outcome.kind = "throws"
                         /\ svc.outcome.from = "createClient"
                      THEN 0 ELSE 1

C26_Witness ==
    /\ IsConfigured(supabaseUrl, supabaseKey)
    /\ pc = "done"
    /\ lookup = "throws"
    /\ getUserCalls = 1
    /\ svc.op = "signIn"
    /\ svc.outcome.kind = "error"
    /\ svc.calls = 1

(***************************************************************************)
(* Properties of the Error Mapper.                                         *)
(***************************************************************************)
\* the eight user-facing messages
FixedMessages ==
    { "Invalid email or password",
      "An account with this email already exists",
      "Please enter a valid email address",
      "Password does not meet requirements",
      "Your session has expired. Please log in again.",
      "This password reset link is invalid or has expired",
      "Too many attempts. Please try again later.",
      "An error occurred. Please try again later." }

\* C13: for every raw error (any text, no message) mapAuthError returns one
\* of the eight fixed messages, and never the raw text.
C13_MapperClosedVocabulary ==
    fnName = "mapAuthError" =>
        /\ fnResult \in FixedMessages
        /\ (fnArg.hasMessage /\ fnArg.message \notin FixedMessages)
              => fnResult # fnArg.message

C13_Witness ==
    /\ fnName = "mapAuthError"
    /\ fnArg.hasMessage
    /\ fnArg.message = "not found Database error"
    /\ fnResult = "An error occurred. Please try again later."

\* C14: a text that contains 'Invalid login credentials' or
\* 'invalid_credentials' and neither 'already registered' nor 'already
\* exists' is mapped to 'Invalid email or password', whatever else it
\* contains.
C14_CredentialRulePriority ==
    (fnName = "mapAuthError" /\ fnArg.hasMessage
        /\ \E c \in {"Invalid login credentials", "invalid_credentials"} :
              \E i \in 1..Len(fnArg.message) :
                  StartsWith(SubSeq(fnArg.message, i, Len(fnArg.message)), c)
        /\ \A a \in {"already registered", "already exists"} :
              \A j \in 1..Len(fnArg.message) :
                  ~StartsWith(SubSeq(fnArg.message, j, Len(fnArg.message)), a))
    => fnResult = "Invalid email or password"

C14_Witness ==
    /\ fnName = "mapAuthError"
    /\ fnArg.hasMessage
    /\ fnArg.message = "Invalid login credentials email token"
    /\ fnResult = "Invalid email or password"

\* the text mentions nothing that a rule for another kind of error looks
\* for: no existing account, no credentials, no weak password, no email,
\* no session
MentionsOnlyToken(text) ==
    /\ \A other \in {"already registered", "already exists",
                      "Invalid login credentials", "invalid_credentials",
                      "email", "session"} : ~Includes(text, other)
    /\ ~(Includes(text, "Password") /\ Includes(text, "weak"))

\* C27: an error text that mentions 'token' together with 'expired', or
\* 'token' together with 'invalid', is mapped to 'This password reset link
\* is invalid or has expired'.
C27_ResetTokenRule ==
    (/\ fnName = "mapAuthError"
     /\ fnArg.hasMessage
     /\ MentionsOnlyToken(fnArg.message)
     /\ Includes(fnArg.message, "token")
     /\ Includes(fnArg.message, "expired") \/ Includes(fnArg.message, "invalid"))
    => fnResult = "This password reset link is invalid or has expired"

(***************************************************************************)
(* Properties of the Validators.                                           *)
(***************************************************************************)
ValidatorNames ==
    {"validateEmail", "validatePassword", "validateSignUpForm",
     "validateLoginForm", "validateResetPasswordForm"}

\* C15: every validator returns isValid true exactly when errors is empty.
C15_ValidIffNoErrors ==
    fnName \in ValidatorNames =>
        (fnResult.isValid <=> DOMAIN fnResult.errors = {})

C15_Witness ==
    /\ fnName = "validateSignUpForm"
    /\ fnArg = [email |-> "a@b.com", password |-> "Abc123!@",
                confirmPassword |-> "Xyz789#$"]
    /\ ~fnResult.isValid
    /\ DOMAIN fnResult.errors = {"confirmPassword"}

\* all characters of s are white space (the empty text included)
AllWhitespace(s) == \A i \in 1..Len(s) : CharAt(s, i) \in Whitespace

\* L@D.T with L, D and T non-empty, free of white space and of '@'
HasEmailForm(s) ==
    LET ats == { i \in 1..Len(s) : CharAt(s, i) = "@" }
    IN  /\ \A i \in 1..Len(s) : CharAt(s, i) \notin Whitespace
        /\ Cardinality(ats) = 1
        /\ \A at \in ats :
              /\ at > 1
              /\ \E dot \in (at + 2)..(Len(s) - 1) : CharAt(s, dot) = "."

\* C16: validateEmail(s) is valid with an empty error map exactly when s is
\* non-blank and has the form L@D.T; blank input gets 'Email is required',
\* every other invalid input 'Please enter a valid email address'.
C16_ValidateEmail ==
    fnName = "validateEmail" =>
        LET s == fnArg.email
        IN  IF ~AllWhitespace(s) /\ HasEmailForm(s)
            THEN fnResult = [isValid |-> TRUE, errors |-> << >>]
            ELSE /\ ~fnResult.isValid
                 /\ DOMAIN fnResult.errors = {"email"}
                 /\ fnResult.errors.email =
                        IF AllWhitespace(s)
                        THEN "Email is required"
                        ELSE "Please enter a valid email address"

C16_Witness ==
    /\ fnName = "validateEmail"
    /\ fnArg.email = "a@a.a"
    /\ fnResult.isValid
    /\ fnResult.errors = << >>

\* the characters that occur in s
Chars(s) == { CharAt(s, i) : i \in 1..Len(s) }

\* the five rules of the password policy, in their order, for a set of
\* special characters
RuleFragments ==
    << "at least 8 characters", "one uppercase letter",
       "one lowercase letter", "one number", "one special character" >>

RuleHolds(k, s, specials) ==
    CASE k = 1 -> Len(s) >= 8
      [] k = 2 -> Chars(s) \cap UpperCaseLetters # {}
      [] k = 3 -> Chars(s) \cap LowerCaseLetters # {}
      [] k = 4 -> Chars(s) \cap Digits # {}
      [] k = 5 -> Chars(s) \cap specials # {}

RECURSIVE ViolatedFragments(_, _, _)
ViolatedFragments(k, s, specials) ==
    IF k > Len(RuleFragments) THEN << >>
    ELSE (IF RuleHolds(k, s, specials) THEN << >> ELSE << RuleFragments[k] >>)
            \o ViolatedFragments(k + 1, s, specials)

PolicyConforming(s) ==
    \A k \in 1..Len(RuleFragments) : RuleHolds(k, s, SpecialCharacters)

C18_ShortPasswordNamesLength ==
    (fnName = "validatePassword" /\ Len(fnArg.password) < 8) =>
        /\ ~fnResult.isValid
        /\ "password" \in DOMAIN fnResult.errors
        /\ Includes(fnResult.errors.password, "at least 8 characters")

\* C18, amended: every string of length less than 8 is invalid; a non-blank
\* one gets a message that starts with the length requirement, a blank one
\* (empty or white space only) gets 'Password is required'.
C18_ShortPasswordNamesLengthUnlessBlank ==
    (fnName = "validatePassword" /\ Len(fnArg.password) < 8) =>
        /\ ~fnResult.isValid
        /\ DOMAIN fnResult.errors = {"password"}
        /\ IF AllWhitespace(fnArg.password)
           THEN fnResult.errors.password = "Password is required"
           ELSE StartsWith(fnResult.errors.password,
                           "Password must contain at least 8 characters")

C18_Witness ==
    /\ fnName = "validatePassword"
    /\ fnArg.password = "Aa1!"
    /\ ~fnResult.isValid
    /\ fnResult.errors.password = "Password must contain at least 8 characters"

\* the set as the specification lists it
ListedSpecialCharacters ==
    {"!", "@", "#", "$", "%", "^", "&", "*", "(", ")", "_", "+", "-", "=",
     "[", "]", "{", "}", ";", "'", "\"", "\\", "|", ",", ".", "<", ">",
     "/", "?"}

\* validatePassword reports the special-character rule, and the indicator
\* shows it as not met, exactly for the passwords without a character of
\* specials
SpecialRuleIs(specials) ==
    /\ (fnName = "validatePassword" /\ ~AllWhitespace(fnArg.password)) =>
          (   (/\ ~fnResult.isValid
               /\ Includes(fnResult.errors.password, RuleFragments[5]))
          <=> Chars(fnArg.password) \cap specials = {})
    /\ fnName = "PasswordStrengthIndicator" =>
          (   (\E i \in 1..Len(fnResult) :
                   fnResult[i] = "One special character")
          <=> Chars(fnArg.password) \cap specials # {})

\* C19 as stated: the special-character rule is satisfied exactly by the
\* characters of the listed set, so a password whose only other character
\* is ':' violates it; the indicator uses the same set.
C19_SpecialSetAsListed == SpecialRuleIs(ListedSpecialCharacters)

\* C19, amended: the rule is satisfied exactly by the characters of the
\* listed set and ':'; a blank still violates it; the indicator uses the
\* same set.
C19_SpecialSetWithColon == SpecialRuleIs(ListedSpecialCharacters \cup {":"})

C19_Witness ==
    /\ fnName = "validatePassword"
    /\ fnArg.password = "abcdeA1:"
    /\ fnResult = [isValid |-> TRUE, errors |-> << >>]

\* the first three parts of C20: a blank email, a blank password and a
\* supplied confirmPassword that differs are each reported, whatever the
\* other fields hold
SignUpFormRejects ==
    /\ AllWhitespace(fnArg.email) =>
          ~fnResult.isValid /\ "email" \in DOMAIN fnResult.errors
    /\ AllWhitespace(fnArg.password) =>
          ~fnResult.isValid /\ "password" \in DOMAIN fnResult.errors
    /\ ("confirmPassword" \in DOMAIN fnArg
            /\ fnArg.confirmPassword # fnArg.password) =>
          ~fnResult.isValid /\ "confirmPassword" \in DOMAIN fnResult.errors

\* the form has a policy-conforming password and an equal confirmPassword
PasswordsAccepted ==
    /\ ~AllWhitespace(fnArg.password)
    /\ PolicyConforming(fnArg.password)
    /\ "confirmPassword" \in DOMAIN fnArg
    /\ fnArg.confirmPassword = fnArg.password

\* C20 as stated: the three rejections, and a form with a well-formed
\* email, a policy-conforming password and an equal confirmPassword is
\* valid with an empty error map.
C20_SignUpForm ==
    fnName = "validateSignUpForm" =>
        /\ SignUpFormRejects
        /\ (HasEmailForm(fnArg.email) /\ PasswordsAccepted) =>
              fnResult = [isValid |-> TRUE, errors |-> << >>]

\* C20, amended: the three rejections, and a form whose email is
\* well-formed after sanitizeInput, with a policy-conforming password and
\* an equal confirmPassword, is valid with an empty error map.
C20_SignUpFormSanitizedEmail ==
    fnName = "validateSignUpForm" =>
        /\ SignUpFormRejects
        /\ (HasEmailForm(sanitizeInput(fnArg.email)) /\ PasswordsAccepted) =>
              fnResult = [isValid |-> TRUE, errors |-> << >>]

C20_Witness ==
    /\ fnName = "validateSignUpForm"
    /\ fnArg = [email |-> "a@b.com", password |-> "Abc123!@",
                confirmPassword |-> "Abc123!@"]
    /\ fnResult = [isValid |-> TRUE, errors |-> << >>]

\* C21: validateLoginForm accepts every form whose sanitized email is
\* well-formed and whose password is non-blank, whatever validatePassword
\* says of the password; its only password error is 'Password is required'.
C21_LoginSkipsStrengthPolicy ==
    fnName = "validateLoginForm" =>
        /\ (/\ HasEmailForm(sanitizeInput(fnArg.email))
            /\ ~AllWhitespace(fnArg.password))
              => fnResult = [isValid |-> TRUE, errors |-> << >>]
        /\ "password" \in DOMAIN fnResult.errors =>
              /\ fnResult.errors.password = "Password is required"
              /\ AllWhitespace(fnArg.password)

C21_Witness ==
    /\ fnName = "validateLoginForm"
    /\ fnArg = [email |-> "a@b.com", password |-> "abc12345"]
    /\ ~PolicyConforming(fnArg.password)
    /\ fnResult = [isValid |-> TRUE, errors |-> << >>]

\* C22: validateResetPasswordForm reports an email error only for a form
\* with an email, and a password or confirmPassword error only for a form
\* with a password; a form with only email has the verdict of validateEmail
\* on the sanitized email, a form with only password fields the verdict of
\* validatePassword and the comparison with confirmPassword.
C22_ResetFormDualMode ==
    fnName = "validateResetPasswordForm" =>
        LET errors == fnResult.errors
            passwordErrors ==
                IF "password" \in DOMAIN fnArg
                THEN validatePassword(fnArg.password).errors
                ELSE << >>
            mismatch ==
                /\ {"password", "confirmPassword"} \subseteq DOMAIN fnArg
                /\ fnArg.password # fnArg.confirmPassword
        IN  /\ "email" \in DOMAIN errors => "email" \in DOMAIN fnArg
            /\ DOMAIN errors \cap {"password", "confirmPassword"} # {}
                  => "password" \in DOMAIN fnArg
            /\ DOMAIN errors \subseteq {"email", "password", "confirmPassword"}
            /\ DOMAIN fnArg = {"email"} =>
                  fnResult = validateEmail(sanitizeInput(fnArg.email))
            /\ "email" \notin DOMAIN fnArg =>
                  /\ DOMAIN errors =
                        DOMAIN passwordErrors
                            \cup (IF mismatch THEN {"confirmPassword"} ELSE {})
                  /\ "password" \in DOMAIN errors =>
                        errors.password = passwordErrors.password
                  /\ "confirmPassword" \in DOMAIN errors =>
                        errors.confirmPassword = "Passwords do not match"
                  /\ fnResult.isValid <=> DOMAIN errors = {}

C22_Witness ==
    /\ fnName = "validateResetPasswordForm"
    /\ fnArg = [email |-> "not-an-email", confirmPassword |-> "Abc123!@"]
    /\ DOMAIN fnResult.errors = {"email"}

\* C24: in validateSignUpForm and validateResetPasswordForm the password
\* error is the one validatePassword gives for the password as typed, and
\* confirmPassword is compared with the password as typed: '<', '>' and
\* surrounding blanks stay part of the password.
C24_PasswordsNotSanitized ==
    (/\ fnName \in {"validateSignUpForm", "validateResetPasswordForm"}
     /\ "password" \in DOMAIN fnArg) =>
        LET typed == validatePassword(fnArg.password)
        IN  /\ "password" \in DOMAIN fnResult.errors <=> ~typed.isValid
            /\ ~typed.isValid =>
                  fnResult.errors.password = typed.errors.password
            /\ "confirmPassword" \in DOMAIN fnResult.errors <=>
                  /\ "confirmPassword" \in DOMAIN fnArg
                  /\ fnArg.confirmPassword # fnArg.password

\* '<Abc12:>' conforms to the policy only with its angle brackets, and
\* ' Abc123!@' differs from 'Abc123!@' only by its leading blank
C24_Witness ==
    /\ fnName = "validateSignUpForm"
    /\ fnArg = [email |-> "a@b.com", password |-> "<Abc12:>",
                confirmPassword |-> "<Abc12:>"]
    /\ ~PolicyConforming(sanitizeInput(fnArg.password))
    /\ fnResult = [isValid |-> TRUE, errors |-> << >>]

\* C23: sanitizeInput(sanitizeInput(x)) = sanitizeInput(x) for every x: the
\* result of one pass has no leading or trailing white space, no '<' or
\* '>', no 'javascript:' in any case and no on<word>= left.
C23_SanitizerIdempotent ==
    fnName = "sanitizeInput" =>
        /\ sanitizeInput(fnResult) = fnResult
        /\ Trim(fnResult) = fnResult
        /\ Chars(fnResult) \cap {"<", ">"} = {}
        /\ ~Includes(ToLowerCase(fnResult), "javascript:")
        /\ \A i \in 1..Len(fnResult) :
              HandlerEnd(SubSeq(fnResult, i, Len(fnResult))) = 0

(***************************************************************************)
(* Properties of the form components.                                      *)
(***************************************************************************)
\* C29: in the login, forgot-password and reset-password forms the Auth
\* Service operation is invoked only after the form validator returned
\* isValid for the field values of the submit, at most once per submit, and
\* when the submit has finished (success, error result or exception)
\* isLoading is false again.
C29_ValidationGatesProviderCall ==
    /\ form.calls <= 1
    /\ form.calls = 1 =>
          /\ form.calledWith = form.validated
          /\ ValidateForm(form.kind, form.validated).isValid
          /\ form.op = FormOperation(form.kind)
    /\ form.submit = "pending" =>
          /\ form.calls = 1
          /\ form.isLoading
          /\ form.calledWith = form.data
    /\ form.submit = "rejected" =>
          form.calls = 0 /\ ~ValidateForm(form.kind, form.validated).isValid
    /\ form.submit # "pending" => ~form.isLoading

C29_Witness ==
    /\ form.kind = "reset"
    /\ form.submit = "throws"
    /\ form.calls = 1
    /\ form.calledWith = [password |-> "Abc123!@",
                          confirmPassword |-> "Abc123!@"]
    /\ ~form.isLoading

(***************************************************************************)
(* Properties of the chat route.                                           *)
(***************************************************************************)
AttemptsOf(c) == 1 .. Len(c.tried)

\* C30: POST /api/chat tries the models in the order of the list, attempts
\* no further model after one returned non-empty text or after a critical
\* API error, and answers with a success response carrying the text exactly
\* when some attempted model produced non-empty text, and with a 500 error
\* response otherwise.
C30_ChatModelFallback ==
    /\ \A i \in AttemptsOf(chat) : chat.tried[i].model = modelsToTry[i]
    /\ \A i \in AttemptsOf(chat) :
          i < Len(chat.tried) =>
              /\ ~ProducedText(chat.tried[i].outcome)
              /\ ~IsCritical(chat.tried[i].outcome)
    /\ chat.pc = "done" =>
          IF \E i \in AttemptsOf(chat) : ProducedText(chat.tried[i].outcome)
          THEN /\ chat.response.status = 200
               /\ TruthyText(chat.response.text)
               /\ \E i \in AttemptsOf(chat) :
                     /\ chat.tried[i].outcome.kind = "text"
                     /\ chat.response.text = JsValue(chat.tried[i].outcome.value)
          ELSE chat.response.status = 500

=============================================================================
